---- MODULE Spec2Model ----
(***************************************************************************)
(* Service invocation layer of the Bravia client.                          *)
(*                                                                         *)
(* One ServiceProtocol instance (src/src/service-protocol.js:336-466, the  *)
(* catalog-checking variant; src/lib/service.js:8-91 has the same describe *)
(* and a plain invoke), the request function that classifies the device's  *)
(* answers (src/src/service-protocol.js:203-327) and the device as the     *)
(* environment.  Every async call is a call chain that is suspended at the *)
(* network round trip: one action runs the code from one resumption to the *)
(* next suspension, which is what the JavaScript event loop guarantees.    *)
(***************************************************************************)
EXTENDS Integers, Sequences, FiniteSets, TLC

VARIABLES
    mode,           \* "sp": callers use one ServiceProtocol; "lib": they use a Bravia
    services,       \* this.services of the Bravia: its endpoints, in creation order
    methods,        \* methods[s]: this.methods of the ServiceProtocol of endpoint s
    serviceMethods, \* this.serviceMethods of the Bravia instance
    call,           \* call[p]: the call chain of caller p (arguments, position, outcome)
    lastDesc,       \* the most recent ServiceProtocol.describe call that completed
    ncalls,         \* number of calls started so far
    device,         \* device[s]: the answer of the device to getVersions on endpoint s
    transport,      \* the call of request() under study: arguments, options, outcome
    thisCredentials,\* this.credentials of the Bravia, which its endpoints share
    irccCodes       \* this.irccCodes of the Bravia

vars ==
    <<mode, services, methods, serviceMethods, call, lastDesc, ncalls, device, transport,
      thisCredentials, irccCodes>>

-----------------------------------------------------------------------------
(* Bounds of the model *)

\* Calls started in one behaviour
MaxCalls == 2

\* The call chains that can be in flight at the same time
Callers == {1, 2}

-----------------------------------------------------------------------------
(* JavaScript values: tagged, so that strict equality and .length are      *)
(* what they are in the source.                                            *)

Undef == [t |-> "undefined", n |-> 0, s |-> "", xs |-> <<>>]
Num(n) == [t |-> "number", n |-> n, s |-> "", xs |-> <<>>]
Str(s) == [t |-> "string", n |-> 0, s |-> s, xs |-> <<>>]
Lst(xs) == [t |-> "array", n |-> 0, s |-> "", xs |-> xs]
Obj(s) == [t |-> "object", n |-> 0, s |-> s, xs |-> <<>>]

\* `undefined` where a method name or a version string is expected
UNDEFINED == "undefined"

\* The characters of the strings of the model, as `for (const c of string)` yields them
Chars(s) ==
    CASE s = "1.0" -> <<"1", ".", "0">>
      [] s = "1.1" -> <<"1", ".", "1">>
      [] s = "1.2" -> <<"1", ".", "2">>
      [] s = "2.0" -> <<"2", ".", "0">>
      [] s = "Display Is Turned off" ->
           <<"D", "i", "s", "p", "l", "a", "y", " ", "I", "s", " ",
             "T", "u", "r", "n", "e", "d", " ", "o", "f", "f">>
      [] OTHER -> <<s>>

\* value.length: a number for arrays and strings, undefined (-1 here) otherwise
JSLength(x) ==
    CASE x.t = "array" -> Len(x.xs)
      [] x.t = "string" -> Len(Chars(x.s))
      [] OTHER -> -1

\* The values `for (const sub of x)` yields: elements of an array, characters of a string
JSIterate(x) ==
    CASE x.t = "array" -> [i \in 1..Len(x.xs) |-> Str(x.xs[i])]
      [] x.t = "string" -> [i \in 1..Len(Chars(x.s)) |-> Str(Chars(x.s)[i])]
      [] OTHER -> <<>>

\* paramsList without the test for an array: the argument is always wrapped
paramsListAlwaysWraps(params) == <<params>>

paramsList(params) ==
    IF params.t = "array" THEN [i \in 1..Len(params.xs) |-> Str(params.xs[i])]
    ELSE <<params>>

-----------------------------------------------------------------------------
(* The device *)

\* The endpoints of the model, and the endpoint of the ServiceProtocol the
\* callers use directly
Services == {"audio", "system"}
TheInstance == "system"

\* What the callers of the model ask for
ExecInputs ==
    {<<TheInstance, m, v>> : m \in {"getPowerStatus", "noSuchMethod"},
                             v \in {"1.0", "1.1", "2.0"}}
    \cup {<<"noSuchProtocol", "getPowerStatus", "1.0">>}
InvokedMethods == {"getPowerStatus", "noSuchMethod"}
RequestedVersions == {"1.0", "1.1", "2.0"}
DescribedVersions == {UNDEFINED, "1.0"}

\* A row of the device's getMethodTypes answer: [name, inputs, outputs, version]
Row(name, v) == <<name, "in", "out", v>>

\* The rows the device reports for a version it supports
DeviceRows(v) ==
    CASE v = "1.0" -> <<Row("getPowerStatus", "1.0"), Row("setPowerStatus", "1.0"),
                        Row("getRemoteControllerInfo", "1.0")>>
      [] v = "1.1" -> <<Row("getPowerStatus", "1.1")>>
      [] v = "1.2" -> <<Row("setPowerStatus", "1.2")>>
      [] OTHER -> <<>>

\* The answers to getVersions the model lets a device give: a list of
\* sub-versions, a list of one, a bare version string, nothing, and a mix.
DeviceAnswers ==
    { <<Lst(<<"1.0", "1.1">>)>>,
      <<Lst(<<"1.0">>)>>,
      <<Str("1.0")>>,
      <<>>,
      <<Lst(<<"1.0", "1.1">>), Lst(<<"1.2">>)>> }

\* The rows the device answers to getMethodTypes(params)
DeviceMethodTypes(params) ==
    IF Len(params) = 1 /\ params[1].t = "string" THEN DeviceRows(params[1].s) ELSE <<>>

\* One answer of the device to one request
\* (cookie: the token of its set-cookie header, "" when it has none)
OkResp == [kind |-> "ok", code |-> 0, msg |-> "", cookie |-> ""]
DevErr(c, m) == [kind |-> "error", code |-> c, msg |-> m, cookie |-> ""]
HttpErr(c, m) == [kind |-> "http", code |-> c, msg |-> m, cookie |-> ""]
NetErr(m) == [kind |-> "net", code |-> 0, msg |-> m, cookie |-> ""]
\* Status 200 with the JSON text `null`: response.body is null, and the
\* assignment to response.body.turnedOff throws a TypeError
NullResp == [kind |-> "null", code |-> 0, msg |-> "", cookie |-> ""]

Responses ==
    { OkResp, HttpErr(404, "Not Found"), HttpErr(500, "Internal Server Error") }

-----------------------------------------------------------------------------
(* request: the Transport Invoker *)

\* The outcome of request() for one answer of the device
ClassifyResponse(resp) ==
    CASE resp.kind = "ok" ->
           [out |-> "return", benign |-> FALSE, turnedOff |-> FALSE,
            title |-> "", code |-> Undef, message |-> ""]
      [] resp.kind = "error" /\ resp.msg = "Illegal State" ->
           [out |-> "return", benign |-> TRUE, turnedOff |-> FALSE,
            title |-> "", code |-> Undef, message |-> ""]
      [] resp.kind = "error" /\ resp.msg # "Illegal State"
            /\ (resp.code = 40005 \/ resp.msg = "Display Is Turned off"
                \/ resp.msg = "not power-on") ->
           [out |-> "return", benign |-> FALSE, turnedOff |-> TRUE,
            title |-> "", code |-> Undef, message |-> ""]
      [] resp.kind = "error" /\ resp.msg # "Illegal State"
            /\ ~(resp.code = 40005 \/ resp.msg = "Display Is Turned off"
                 \/ resp.msg = "not power-on") ->
           [out |-> "throw", benign |-> FALSE, turnedOff |-> FALSE,
            title |-> "Invalid Response", code |-> Num(resp.code), message |-> resp.msg]
      [] resp.kind = "http" ->
           [out |-> "throw", benign |-> FALSE, turnedOff |-> FALSE,
            title |-> "Invalid Response", code |-> Num(resp.code), message |-> resp.msg]
      [] OTHER ->
           [out |-> "throw", benign |-> FALSE, turnedOff |-> FALSE,
            title |-> "No Response", code |-> Str(resp.msg), message |-> resp.msg]

-----------------------------------------------------------------------------
(* request: the options it builds *)

HeaderNames == {"Content-Type", "SOAPACTION", "X-Auth-PSK", "Cookie", "Authorization"}

\* A headers object without any header
NoHeaders == [h \in HeaderNames |-> UNDEFINED]

\* options.headers as request() first sets it
DefaultHeaders ==
    [NoHeaders EXCEPT !["Content-Type"] = "text/xml; charset=UTF-8",
                      !["SOAPACTION"] = "\"urn:schemas-sony-com:service:IRCC:1#X_SendIRCC\""]

\* A string that an `if` takes as true
Truthy(s) == s \notin {UNDEFINED, ""}

\* credentials: psk, whether pin is there, and the fields of pin: token, name,
\* uuid and expires (an expiry date in the future, when there is a token)
Credential(psk, pin, token) ==
    [psk |-> psk, pin |-> pin, token |-> token,
     name |-> IF pin THEN "bravia" ELSE UNDEFINED,
     uuid |-> IF pin THEN "uuid-bravia" ELSE UNDEFINED,
     expires |-> IF pin /\ token # UNDEFINED THEN "future" ELSE UNDEFINED]

\* CredentialsRead that moves the token into the cookie: it is cleared
CredentialsReadTakesToken(credentials) == [credentials EXCEPT !.token = UNDEFINED]

\* The credentials object after request() has read psk and pin.token from it:
\* no statement of request() assigns to it or to its pin
CredentialsRead(credentials) == credentials

\* `auth=${credentials.pin.token}`
AuthCookie(token) == "auth=" \o token

\* AuthHeaders with the two tests in the other order: the token wins over the PSK
AuthHeadersTokenFirst(headers, credentials) ==
    IF credentials.pin /\ Truthy(credentials.token)
    THEN [headers EXCEPT !["Cookie"] = AuthCookie(credentials.token)]
    ELSE IF Truthy(credentials.psk)
    THEN [headers EXCEPT !["X-Auth-PSK"] = credentials.psk]
    ELSE headers

\* The authentication header request() adds for the credentials
AuthHeaders(headers, credentials) ==
    IF Truthy(credentials.psk)
    THEN [headers EXCEPT !["X-Auth-PSK"] = credentials.psk]
    ELSE IF credentials.pin /\ Truthy(credentials.token)
    THEN [headers EXCEPT !["Cookie"] = AuthCookie(credentials.token)]
    ELSE headers

\* {...options.headers, ...headers}: a header of the caller replaces the one
\* of the same name
MergeHeaders(own, extra) ==
    [h \in HeaderNames |-> IF extra[h] # UNDEFINED THEN extra[h] ELSE own[h]]

\* data: the legacy IRCC text payload {xml}, or a call descriptor
IRCCData ==
    [xml |-> TRUE, id |-> Undef, method |-> UNDEFINED, version |-> UNDEFINED,
     params |-> <<>>]
Envelope(req) ==
    [xml |-> FALSE, id |-> req.id, method |-> req.method, version |-> req.version,
     params |-> req.params]

\* The options request() hands to got
Options(credentials, data, headers) ==
    [body |-> data.xml, json |-> ~data.xml,
     responseType |-> IF data.xml THEN "text" ELSE "json",
     headers |-> MergeHeaders(AuthHeaders(DefaultHeaders, credentials), headers)]

\* The Content-Type of the POST: got keeps a Content-Type header that the
\* options set, and chooses one for a json body only when they set none
SentContentType(options) ==
    IF options.headers["Content-Type"] # UNDEFINED
    THEN options.headers["Content-Type"]
    ELSE IF options.json THEN "application/json" ELSE UNDEFINED

-----------------------------------------------------------------------------
(* request: the body it returns and the error it throws *)

\* The body of the device's answer: error is [code, message] or absent (<<>>)
ResponseBody(resp) ==
    IF resp.kind = "error"
    THEN [error |-> <<Num(resp.code), Str(resp.msg)>>, hasResult |-> FALSE,
          result |-> <<>>, turnedOff |-> UNDEFINED]
    ELSE [error |-> <<>>, hasResult |-> TRUE, result |-> <<Str("result")>>,
          turnedOff |-> UNDEFINED]

\* {uri: false, source: 'application', title: 'Application'}
ApplicationSource == [uri |-> FALSE, source |-> "application", title |-> "Application"]

IsIllegalState(error) == error[2] = Str("Illegal State")

\* IsTurnedOff that looks at the code only
IsTurnedOffByCodeOnly(error) == error[1] = Num(40005)

IsTurnedOff(error) ==
    \/ error[1] = Num(40005)
    \/ error[2] = Str("Display Is Turned off")
    \/ error[2] = Str("not power-on")

\* ErrorRule with the power-off test before the illegal-state test
ErrorRulePowerOffFirst(error) ==
    IF error = <<>> THEN "none"
    ELSE IF IsTurnedOff(error) THEN "off"
    ELSE IF IsIllegalState(error) THEN "benign"
    ELSE "throw"

\* The branch request() takes for the error field of a body
ErrorRule(error) ==
    IF error = <<>> THEN "none"
    ELSE IF IsIllegalState(error) THEN "benign"
    ELSE IF IsTurnedOff(error) THEN "off"
    ELSE "throw"

\* NormalizeBody without the `delete response.body.error` of the power-off branch
NormalizeBodyKeepsError(body) ==
    LET b == [body EXCEPT !.turnedOff = "null"]
        rule == ErrorRule(b.error)
    IN  CASE rule = "benign" ->
               [b EXCEPT !.result = <<ApplicationSource>>, !.hasResult = TRUE,
                         !.error = <<>>]
          [] rule = "off" ->
               [b EXCEPT !.result = b.error, !.hasResult = TRUE, !.turnedOff = "true"]
          [] OTHER -> b

\* The body after request() looked at its error field
NormalizeBody(body) ==
    LET b == [body EXCEPT !.turnedOff = "null"]
        rule == ErrorRule(b.error)
    IN  CASE rule = "benign" ->
               [b EXCEPT !.result = <<ApplicationSource>>, !.hasResult = TRUE,
                         !.error = <<>>]
          [] rule = "off" ->
               [b EXCEPT !.result = b.error, !.hasResult = TRUE, !.turnedOff = "true",
                         !.error = <<>>]
          [] OTHER -> b

\* ProtocolError reading error.code and error.message, which an array has not
ProtocolErrorByName(error) == [statusCode |-> Undef, statusMessage |-> Undef]

\* err.response of the error thrown for an error pair that is no known signature
ProtocolError(error) == [statusCode |-> error[1], statusMessage |-> error[2]]

\* A JavaScript value that is either an array (of `items`) or the one value
\* in `items`
ArrayValue(items) == [isArray |-> TRUE, items |-> items]
PlainValue(v) ==
    IF v.t = "array"
    THEN ArrayValue([i \in 1..Len(v.xs) |-> Str(v.xs[i])])
    ELSE [isArray |-> FALSE, items |-> <<v>>]

\* The payload of an error that has none
NoPayload ==
    [id |-> Undef, version |-> UNDEFINED, method |-> UNDEFINED, params |-> ArrayValue(<<>>)]

\* payload: {id, version, method, params: data.params && data.params.length
\* ? data.params[0] : []}
ErrorPayload(data) ==
    [id |-> data.id, version |-> data.version, method |-> data.method,
     params |-> IF Len(data.params) > 0 THEN PlainValue(data.params[1]) ELSE ArrayValue(<<>>)]

\* A completed request(): a returned value or a thrown error
NoResult ==
    [out |-> "none", shape |-> "none", body |-> NormalizeBody(ResponseBody(OkResp)),
     title |-> UNDEFINED, code |-> Undef, message |-> Undef,
     payload |-> NoPayload, url |-> <<>>]

\* return pair ? response : response.body
ReturnBody(body, pair) ==
    [NoResult EXCEPT !.out = "return", !.shape = IF pair THEN "response" ELSE "body",
                     !.body = body]

\* catch, err.response: the error titled 'Invalid Response'
InvalidResponse(response) ==
    [NoResult EXCEPT !.out = "throw", !.title = "Invalid Response",
                     !.code = response.statusCode, !.message = response.statusMessage]

\* catch, err.request: the error titled 'No Response'
NoResponse(code, message) ==
    [NoResult EXCEPT !.out = "throw", !.title = "No Response",
                     !.code = code, !.message = message]

\* catch, neither err.response nor err.request: throw new Error(err)
OtherError(err) ==
    [NoResult EXCEPT !.out = "throw", !.message = Str(err)]

\* The body of a response of type 'text' is a string. The module is not in
\* strict mode ('use-strict' is no directive), so `response.body.turnedOff =
\* null` assigns nothing to it, and `response.body.error` reads undefined
TextBody == [error |-> <<>>, hasResult |-> FALSE, result |-> <<>>, turnedOff |-> UNDEFINED]

\* request() resumed with the answer of the device
RequestOutcome(data, resp, pair) ==
    CASE resp.kind \in {"ok", "error"} ->
           IF data.xml
           THEN ReturnBody(TextBody, pair)
           ELSE IF ErrorRule(ResponseBody(resp).error) = "throw"
           THEN InvalidResponse(ProtocolError(ResponseBody(resp).error))
           ELSE ReturnBody(NormalizeBody(ResponseBody(resp)), pair)
      [] resp.kind = "http" ->
           InvalidResponse([statusCode |-> Num(resp.code), statusMessage |-> Str(resp.msg)])
      [] resp.kind = "null" -> OtherError("TypeError")
      [] OTHER -> NoResponse(Str(resp.msg), Str(resp.msg))

\* The two Object.assign of the catch block put the payload and the url on the
\* errors titled 'Invalid Response' and 'No Response'
WithPayload(result, data, uri) ==
    IF result.out = "throw" /\ result.title # UNDEFINED
    THEN [result EXCEPT !.payload = ErrorPayload(data), !.url = uri]
    ELSE result

\* What the callers of request() pass in the model
CredentialInputs ==
    { Credential(UNDEFINED, FALSE, UNDEFINED), Credential(UNDEFINED, TRUE, UNDEFINED),
      Credential(UNDEFINED, TRUE, "tok"), Credential("0000", FALSE, UNDEFINED),
      Credential("0000", TRUE, UNDEFINED), Credential("0000", TRUE, "tok") }
HeaderInputs ==
    { NoHeaders,
      [NoHeaders EXCEPT !["Authorization"] = "Basic OjEyMzQ="],
      [NoHeaders EXCEPT !["X-Auth-PSK"] = "9999"],
      [NoHeaders EXCEPT !["Cookie"] = "auth=other"] }

\* The answers of the device to one call of request()
TransportResponses ==
    { OkResp,
      DevErr(7, "Illegal State"), DevErr(40005, "Illegal State"),
      DevErr(40005, "Display Is Turned off"), DevErr(40005, "Unknown"),
      DevErr(3, "Display Is Turned off"), DevErr(3, "not power-on"),
      DevErr(401, "Unauthorized"), DevErr(404, "Not Found"),
      HttpErr(404, "Not Found"), HttpErr(500, "Internal Server Error"),
      NetErr("ECONNREFUSED"), NullResp }

\* No call of request() made yet
NoTransport ==
    [pc |-> "idle", via |-> "request", uri |-> <<>>, arg |-> Undef,
     given |-> Credential(UNDEFINED, FALSE, UNDEFINED),
     credentials |-> Credential(UNDEFINED, FALSE, UNDEFINED),
     data |-> IRCCData, headers |-> NoHeaders, pair |-> FALSE,
     options |-> Options(Credential(UNDEFINED, FALSE, UNDEFINED), IRCCData, NoHeaders),
     resp |-> OkResp, result |-> NoResult]

-----------------------------------------------------------------------------
(* The catalog *)

\* An element of this.methods: an entry {method, version}, or (after a push
\* of a mapped array) an array of entries, which has neither field.
Entry(m, v) == [t |-> "entry", method |-> m, version |-> v, items |-> <<>>]
ArrayOf(entries) ==
    [t |-> "array", method |-> UNDEFINED, version |-> UNDEFINED, items |-> entries]

\* response.results.map(method => ({method: method[0], version: method[method.length - 1]}))
MapRows(rows) == [i \in 1..Len(rows) |-> Entry(rows[i][1], rows[i][Len(rows[i])])]

\* ConcatMethods with the operands swapped: mapped.concat(this.methods)
ConcatMethodsPrepend(cat, rows) == MapRows(rows) \o cat

\* ConcatMethods as a de-duplication gone wrong: rows the catalog already
\* holds are taken out of it and not put back
ConcatMethodsDropKnown(cat, rows) ==
    IF \E i \in 1..Len(cat), j \in 1..Len(rows) : cat[i] = MapRows(rows)[j]
    THEN SelectSeq(cat, LAMBDA e : \A j \in 1..Len(rows) : e # MapRows(rows)[j])
    ELSE cat \o MapRows(rows)

\* this.methods = this.methods.concat(mapped)
ConcatMethods(cat, rows) == cat \o MapRows(rows)

\* this.methods.push(mapped)
PushMethods(cat, rows) == Append(cat, ArrayOf(MapRows(rows)))

\* What one getMethodTypes answer does to the catalog
RecordMethods(cat, how, rows) ==
    IF how = "concat" THEN ConcatMethods(cat, rows) ELSE PushMethods(cat, rows)

\* The getMethodTypes requests of the loop over one element of getVersions' answer
PlanOf(version) ==
    IF JSLength(version) > 1
    THEN [i \in 1..Len(JSIterate(version)) |->
            [param |-> JSIterate(version)[i], how |-> "concat"]]
    ELSE <<[param |-> version, how |-> "push"]>>

RECURSIVE DiscoveryPlan(_)
DiscoveryPlan(versions) ==
    IF versions = <<>> THEN <<>>
    ELSE PlanOf(Head(versions)) \o DiscoveryPlan(Tail(versions))

\* describe served from the cache: the bare array, filtered when a version is given
DescribeCached(cat, version) ==
    IF version # UNDEFINED
    THEN SelectSeq(cat, LAMBDA e : e.version = version)
    ELSE cat

\* methods.filter(availableMethod => availableMethod.method === method)
MethodExist(cat, method) == SelectSeq(cat, LAMBDA e : e.method = method)

\* ResolveVersion with the fallback taking the first entry instead of the last
ResolveVersionFirst(methodExist, version) ==
    IF \E i \in 1..Len(methodExist) : methodExist[i].version = version
    THEN version
    ELSE methodExist[1].version

\* ResolveVersion without the exact match: always the last entry's version
ResolveVersionAlwaysLast(methodExist, version) ==
    methodExist[Len(methodExist)].version

\* The version sent: the requested one when an entry has it, else the last entry's
ResolveVersion(methodExist, version) ==
    IF \E i \in 1..Len(methodExist) : methodExist[i].version = version
    THEN version
    ELSE methodExist[Len(methodExist)].version

-----------------------------------------------------------------------------
(* Values returned and thrown *)

\* A text is kept as the sequence of its parts: the literal pieces of a
\* template string and the values put between them
NoOut ==
    [kind |-> "none", shape |-> "none", methods |-> <<>>, title |-> "",
     code |-> Undef, turnedOff |-> FALSE, message |-> <<>>, url |-> <<>>]

Returned(shape, ms, off) ==
    [kind |-> "return", shape |-> shape, methods |-> ms, title |-> "",
     code |-> Undef, turnedOff |-> off, message |-> <<>>, url |-> <<>>]

Thrown(title, code) ==
    [kind |-> "throw", shape |-> "none", methods |-> <<>>, title |-> title,
     code |-> code, turnedOff |-> FALSE, message |-> <<>>, url |-> <<>>]

\* The url the Bravia gives to its endpoints, and this.url of the endpoint s:
\* `${url}/${protocol}`
BaseUrl == "http://tv/sony"
EndpointUrl(s) == <<BaseUrl, "/", s>>

\* UnknownMethodError without `message` among the fields assigned
UnknownMethodErrorKeepsMessage(method, url) ==
    [Thrown("Unknown Service Method", Str("UNKNOWN")) EXCEPT
        !.message = <<"Service Methods \"", method, "\" not known!">>,
        !.url = url]

\* new Error(`Service Methods "${method}" not known!`), then Object.assign of
\* title, code, message, soap, payload and url onto it
UnknownMethodError(method, url) ==
    [Thrown("Unknown Service Method", Str("UNKNOWN")) EXCEPT
        !.message = <<"Unknown Service Method">>,
        !.url = url]

\* Request with the id that the device reserves
RequestIdZero(service, method, version, params) ==
    [id |-> Num(0), service |-> service, method |-> method, version |-> version,
     params |-> params]

\* A call descriptor {id: 1, method, version, params}, and the endpoint it goes to
Request(service, method, version, params) ==
    [id |-> Num(1), service |-> service, method |-> method, version |-> version,
     params |-> params]

GetVersionsRequest(s) == Request(s, "getVersions", "1.0", <<>>)
GetMethodTypesRequest(s, param) == Request(s, "getMethodTypes", "1.0", paramsList(param))

-----------------------------------------------------------------------------
(* ServiceProtocol.describe: one run of it is a task of the call that made it *)

NoTask ==
    [pc |-> "none", todo |-> <<>>, reqs |-> <<>>, swallowed |-> FALSE, failure |-> Undef,
     off |-> FALSE, ret |-> NoOut]

\* The task t, with the code of the error noted when request() threw one, and
\* with a note when request() returned a result flagged as power-off
Answered(t, r) ==
    [t EXCEPT !.failure = IF r.out = "throw" THEN r.code ELSE @,
              !.off = @ \/ (r.out = "return" /\ r.turnedOff)]

TaskReturn(t, shape, cat) == [t EXCEPT !.pc = "returned", !.ret = Returned(shape, cat, FALSE)]

\* throw new Error(err): the error that leaves describe has neither title nor code
TaskThrow(t) == [t EXCEPT !.pc = "threw", !.ret = Thrown("Error", Undef)]

TaskSend(t, pc, req) == [t EXCEPT !.pc = pc, !.reqs = Append(@, req)]

\* describe(version) on endpoint s up to its first suspension
DescribeStart(s, cat, version) ==
    IF Len(cat) > 0
    THEN TaskReturn(NoTask, "array", DescribeCached(cat, version))
    ELSE TaskSend(NoTask, "getVersions", GetVersionsRequest(s))

\* The next getMethodTypes request of the discovery loop, or the end of describe
ContinueDiscovery(s, t, cat) ==
    IF t.todo = <<>>
    THEN TaskReturn(t, "object", cat)
    ELSE TaskSend(t, "getMethodTypes", GetMethodTypesRequest(s, Head(t.todo).param))

\* DescribeCatch without the rethrow: every error is swallowed
DescribeCatchSwallowsAll(t, code, cat) ==
    TaskReturn([t EXCEPT !.swallowed = TRUE], "object", cat)

\* catch (err) { if (err.code !== 404) throw new Error(err) }, then the return
DescribeCatch(t, code, cat) ==
    IF code = Num(404)
    THEN TaskReturn([t EXCEPT !.swallowed = TRUE], "object", cat)
    ELSE TaskThrow(t)

\* response.result of getVersions, for an answer that request() returned
VersionsResult(r, resp, answer) ==
    CASE r.benign -> <<Obj("application")>>
      [] r.turnedOff -> <<Num(resp.code), Str(resp.msg)>>
      [] OTHER -> answer

\* describe resumed with the outcome r of its getVersions request
DescribeOnVersions(s, t, r, resp, cat, answer) ==
    IF r.out = "throw"
    THEN DescribeCatch(t, r.code, cat)
    ELSE ContinueDiscovery(s, [t EXCEPT !.todo = DiscoveryPlan(VersionsResult(r, resp, answer))],
                           cat)

\* A body request() returned for getMethodTypes has `results` only when the
\* device answered without an error pair
HasResults(r) == r.out = "return" /\ ~r.benign /\ ~r.turnedOff

\* The catalog after describe resumed with the outcome r of a getMethodTypes request
CatalogOnMethodTypes(t, r, cat) ==
    IF HasResults(r)
    THEN RecordMethods(cat, Head(t.todo).how,
                       DeviceMethodTypes(paramsList(Head(t.todo).param)))
    ELSE cat

\* describe resumed with the outcome r of a getMethodTypes request
DescribeOnMethodTypes(s, t, r, cat) ==
    IF r.out = "throw"
    THEN DescribeCatch(t, r.code, cat)
    ELSE IF ~HasResults(r)
    THEN DescribeCatch(t, Undef, cat)
    ELSE ContinueDiscovery(s, [t EXCEPT !.todo = Tail(@)], CatalogOnMethodTypes(t, r, cat))

-----------------------------------------------------------------------------
(* Calls *)

NoDesc == [version |-> UNDEFINED, out |-> NoOut]

\* The position of a call chain in execCommand: the await it is at, the list
\* of codes, the index of the code the loop is at, the values of the IRCC
\* requests sent so far and how many of them were answered
NoCmd == [stage |-> "none", codes |-> <<>>, k |-> 1, sent |-> <<>>, answered |-> 0]

IdleCall ==
    [op |-> "none", pc |-> "idle", protocol |-> UNDEFINED, method |-> UNDEFINED,
     version |-> UNDEFINED, tasks |-> [s \in Services |-> NoTask], reqs |-> <<>>,
     preCat |-> <<>>, prev |-> NoDesc, quiet |-> TRUE, racing |-> {}, view |-> <<>>,
     auth |-> <<>>, pending |-> <<>>, refreshed |-> FALSE,
     flags |-> [pin |-> FALSE, refresh |-> FALSE, manualAuth |-> FALSE],
     prompts |-> 0, pairResp |-> OkResp, cmd |-> NoCmd, out |-> NoOut]

\* Nothing that caller p started is still running
Free(p) ==
    /\ call[p].pc \in {"idle", "done"}
    /\ call[p].cmd.stage \in {"none", "done"}
    /\ \A s \in Services : call[p].tasks[s].pc \in {"none", "returned", "threw"}

\* Caller p can start a call.  Callers are interchangeable, so a new call
\* chain takes the first caller that is free.
CanStart(p) ==
    /\ Free(p)
    /\ ncalls < MaxCalls
    /\ \A q \in Callers : q < p => ~Free(q)

\* No call chain is running: every call has completed, and so has every
\* describe it started
Quiet == \A q \in Callers : Free(q)

\* The endpoints on which a discovery is in flight
Discovering ==
    {s \in Services :
        \E q \in Callers : call[q].tasks[s].pc \in {"getVersions", "getMethodTypes"}}

Done(c, out) == [c EXCEPT !.pc = "done", !.out = out]

Send(c, req) == [c EXCEPT !.pc = "request", !.reqs = Append(@, req)]

\* ServiceProtocol.invoke after describe returned `service`: lookup by name,
\* version resolution, request
InvokeResolve(c, service) ==
    IF service.shape # "object"
    THEN Done(c, Thrown("TypeError", Undef))
    ELSE IF MethodExist(service.methods, c.method) = <<>>
    THEN Done([c EXCEPT !.view = service.methods],
              UnknownMethodError(c.method, EndpointUrl(c.protocol)))
    ELSE Send([c EXCEPT !.view = service.methods],
              Request(c.protocol, c.method,
                      ResolveVersion(MethodExist(service.methods, c.method), c.version),
                      <<>>))

\* The endpoints the Bravia has a ServiceProtocol for
Created == {services[i] : i \in 1..Len(services)}

\* One element of the Bravia's serviceMethods, from what service.describe() returned
ServiceDesc(s, ret) ==
    IF ret.shape = "object"
    THEN [service |-> s, defined |-> TRUE, methods |-> ret.methods]
    ELSE [service |-> UNDEFINED, defined |-> FALSE, methods |-> <<>>]

\* The credentials of a Bravia made with a PSK, and those made for a PIN:
\* never paired, paired with a token that has expired, paired with a live token
PskCredentials == Credential("0000", FALSE, UNDEFINED)
PinCredentials ==
    { Credential(UNDEFINED, TRUE, UNDEFINED),
      [Credential(UNDEFINED, TRUE, "tok") EXCEPT !.expires = "past"],
      Credential(UNDEFINED, TRUE, "tok") }

\* refreshToken: whether it has to pair again
NeedsPair(credentials) ==
    credentials.pin /\ (~Truthy(credentials.token) \/ credentials.expires = "past")

\* The actRegister call of Bravia.pair, sent to the accessControl endpoint
PairRequest(credentials) ==
    Request("accessControl", "actRegister", "1.0",
            <<Obj(credentials.name \o ":" \o credentials.uuid), Lst(<<"WOL">>)>>)

\* await this.refreshToken(), then serviceProtocolMap.invoke(...): the request
\* of exec waits for the pairing when the token is missing or has expired
RefreshThenInvoke(c, req) ==
    IF NeedsPair(thisCredentials)
    THEN [c EXCEPT !.pc = "pair", !.pending = <<req>>,
                   !.flags = [pin |-> FALSE, refresh |-> TRUE, manualAuth |-> FALSE],
                   !.auth = Append(@, PairRequest(thisCredentials))]
    ELSE Send([c EXCEPT !.refreshed = TRUE], req)

\* Bravia.exec after describe returned sm: lookup of the protocol and of the
\* method, version resolution, refreshToken, then ServiceProtocol.invoke
\* sends the request
ExecResolve(c, sm) ==
    LET found == SelectSeq(sm, LAMBDA e : e.service = c.protocol)
    IN  IF found = <<>> \/ c.protocol \notin Created
        THEN Done(c, Thrown("Unknown Service Protocol", Str("APIERROR")))
        ELSE IF ~found[1].defined
        THEN Done(c, Thrown("TypeError", Undef))
        ELSE IF MethodExist(found[1].methods, c.method) = <<>>
        THEN Done([c EXCEPT !.view = found[1].methods],
                  Thrown("Unknown Service Method", Str("APIERROR")))
        ELSE RefreshThenInvoke(
                 [c EXCEPT !.view = found[1].methods],
                 Request(c.protocol, c.method,
                         ResolveVersion(MethodExist(found[1].methods, c.method), c.version),
                         <<>>))

\* What Promise.all over the describe tasks of c resolved to
DescribedServices(c) ==
    [i \in 1..Len(services) |-> ServiceDesc(services[i], c.tasks[services[i]].ret)]

\* The Bravia call c once its Bravia.describe returned sm
AfterBraviaDescribe(c, sm) ==
    IF c.op = "braviaDescribe"
    THEN Done(c, Returned("serviceMethods", sm, FALSE))
    ELSE ExecResolve(c, sm)

\* The call chain c after one of its describe tasks moved: nothing while the
\* call awaits other tasks or has completed already; else its continuation
Resume(c) ==
    IF c.pc # "describe" THEN c
    ELSE IF c.op \in {"describe", "invoke"}
    THEN LET t == c.tasks[TheInstance]
         IN  CASE t.pc = "threw" -> Done(c, t.ret)
               [] t.pc = "returned" ->
                    IF c.op = "describe" THEN Done(c, t.ret) ELSE InvokeResolve(c, t.ret)
               [] OTHER -> c
    ELSE IF \E s \in Created : c.tasks[s].pc = "threw"
    THEN Done(c, Thrown("Error", Undef))
    ELSE IF \A s \in Created : c.tasks[s].pc = "returned"
    THEN AfterBraviaDescribe(c, DescribedServices(c))
    ELSE c

\* this.serviceMethods after the call chain moved from c to d: assigned when
\* the Promise.all of Bravia.describe resolved
ServiceMethodsAfter(c, d) ==
    IF /\ c.op \in {"braviaDescribe", "exec"}
       /\ c.pc = "describe"
       /\ \A s \in Created : d.tasks[s].pc = "returned"
    THEN DescribedServices(d)
    ELSE serviceMethods

\* lastDesc after the call chain of a caller moved from c to d
NoteDescribe(c, d) ==
    IF d.op = "describe" /\ d.pc = "done" /\ c.pc # "done"
    THEN [version |-> d.version, out |-> d.out]
    ELSE lastDesc

-----------------------------------------------------------------------------
(* Operations *)

Init ==
    /\ mode \in {"sp", "lib"}
    /\ services = <<TheInstance>>
    /\ methods = [s \in Services |-> <<>>]
    /\ serviceMethods = <<>>
    /\ call = [p \in Callers |-> IdleCall]
    /\ lastDesc = NoDesc
    /\ ncalls = 0
    /\ device \in [Services -> DeviceAnswers]
    /\ \A s \in Services \ Created : device[s] = <<>>
    /\ transport = NoTransport
    /\ thisCredentials = PskCredentials
    /\ irccCodes = Lst(<<>>)

\* A call chain of the caller starts on the ServiceProtocol: describe(version),
\* or invoke(method, version), which calls describe(version) first
StartOnService(p, op, method, version) ==
    LET c == [IdleCall EXCEPT
                !.op = op, !.pc = "describe", !.protocol = TheInstance,
                !.method = method, !.version = version,
                !.preCat = methods[TheInstance], !.prev = lastDesc, !.quiet = Quiet,
                !.racing = Discovering,
                !.tasks[TheInstance] =
                    DescribeStart(TheInstance, methods[TheInstance], version)]
    IN  /\ ncalls' = ncalls + 1
        /\ call' = [call EXCEPT ![p] = Resume(c)]
        /\ lastDesc' = NoteDescribe(c, call'[p])
        /\ UNCHANGED <<mode, services, methods, serviceMethods, device, transport,
                     thisCredentials, irccCodes>>

\* A caller calls describe(version) of the ServiceProtocol; describe() when
\* version is undefined
Describe(p, version) ==
    /\ mode = "sp"
    /\ CanStart(p)
    /\ StartOnService(p, "describe", UNDEFINED, version)

\* A caller calls invoke(method, version) of the ServiceProtocol
Invoke(p, method, version) ==
    /\ mode = "sp"
    /\ CanStart(p)
    /\ StartOnService(p, "invoke", method, version)

\* A call chain of the caller starts on the Bravia: describe(), or
\* exec(protocol, method, version), which calls describe() first
StartOnBravia(p, op, protocol, method, version) ==
    LET c0 == [IdleCall EXCEPT
                 !.op = op, !.pc = "describe", !.protocol = protocol,
                 !.method = method, !.version = version,
                 !.preCat = IF protocol \in Services THEN methods[protocol] ELSE <<>>,
                 !.quiet = Quiet, !.racing = Discovering]
        c == IF Len(serviceMethods) > 0
             THEN AfterBraviaDescribe(c0, serviceMethods)
             ELSE [c0 EXCEPT !.tasks =
                      [s \in Services |->
                          IF s \in Created
                          THEN DescribeStart(s, methods[s], UNDEFINED)
                          ELSE NoTask]]
    IN  /\ ncalls' = ncalls + 1
        /\ call' = [call EXCEPT ![p] = Resume(c)]
        /\ serviceMethods' = ServiceMethodsAfter(c, call'[p])
        /\ UNCHANGED <<mode, services, methods, lastDesc, device, transport,
                     thisCredentials, irccCodes>>

\* A caller calls describe() of the Bravia
BraviaDescribe(p) ==
    /\ mode = "lib"
    /\ CanStart(p)
    /\ StartOnBravia(p, "braviaDescribe", UNDEFINED, UNDEFINED, UNDEFINED)

\* A caller calls exec(protocol, method, version) of the Bravia
Exec(p, protocol, method, version) ==
    /\ mode = "lib"
    /\ CanStart(p)
    /\ StartOnBravia(p, "exec", protocol, method, version)

\* The call chain of caller p after its describe task on endpoint s moved to t
TaskMoved(p, s, t) ==
    LET c == [call[p] EXCEPT !.tasks[s] = t]
    IN  /\ call' = [call EXCEPT ![p] = Resume(c)]
        /\ serviceMethods' = ServiceMethodsAfter(c, call'[p])
        /\ lastDesc' = NoteDescribe(c, call'[p])

\* The device answers the getVersions request of a describe of caller p
GetVersionsDone(p, s, resp) ==
    /\ call[p].tasks[s].pc = "getVersions"
    /\ TaskMoved(p, s, Answered(DescribeOnVersions(s, call[p].tasks[s], ClassifyResponse(resp),
                                                   resp, methods[s], device[s]),
                                ClassifyResponse(resp)))
    /\ UNCHANGED <<mode, services, methods, ncalls, device, transport,
                     thisCredentials, irccCodes>>

\* The device answers a getMethodTypes request of a describe of caller p
GetMethodTypesDone(p, s, resp) ==
    /\ call[p].tasks[s].pc = "getMethodTypes"
    /\ methods' = [methods EXCEPT ![s] =
                      CatalogOnMethodTypes(call[p].tasks[s], ClassifyResponse(resp), @)]
    /\ TaskMoved(p, s, Answered(DescribeOnMethodTypes(s, call[p].tasks[s],
                                                      ClassifyResponse(resp), methods[s]),
                                ClassifyResponse(resp)))
    /\ UNCHANGED <<mode, services, ncalls, device, transport,
                     thisCredentials, irccCodes>>

\* What the caller of ServiceProtocol.invoke gets for the outcome r of request()
InvokeOutcome(r) ==
    IF r.out = "throw"
    THEN Thrown(r.title, r.code)
    ELSE Returned("body", <<>>, r.turnedOff)

\* InvokeResume with one more attempt after a failure
InvokeResumeRetriesOnce(c, r) ==
    IF r.out = "throw" /\ Len(c.reqs) < 2
    THEN Send(c, c.reqs[Len(c.reqs)])
    ELSE Done(c, InvokeOutcome(r))

\* invoke resumed with the outcome r of its request: `return request(...)`
\* hands it to the caller, whatever it is
InvokeResume(c, r) == Done(c, InvokeOutcome(r))

\* The device answers the request that invoke sent for caller p
InvokeDone(p, resp) ==
    /\ call[p].pc = "request"
    /\ call' = [call EXCEPT ![p] = InvokeResume(@, ClassifyResponse(resp))]
    /\ UNCHANGED <<mode, services, methods, serviceMethods, lastDesc, ncalls, device, transport,
                     thisCredentials, irccCodes>>

Next ==
    \/ \E p \in Callers, v \in DescribedVersions : Describe(p, v)
    \/ \E p \in Callers, m \in InvokedMethods, v \in RequestedVersions : Invoke(p, m, v)
    \/ \E p \in Callers : BraviaDescribe(p)
    \/ \E p \in Callers, x \in ExecInputs : Exec(p, x[1], x[2], x[3])
    \/ \E p \in Callers, s \in Services, resp \in Responses : GetVersionsDone(p, s, resp)
    \/ \E p \in Callers, s \in Services, resp \in Responses : GetMethodTypesDone(p, s, resp)
    \/ \E p \in Callers, resp \in Responses : InvokeDone(p, resp)

Spec == Init /\ [][Next]_vars

-----------------------------------------------------------------------------
(* request() on its own: any credentials, payload, extra headers and answer *)

\* The payloads of the model: an IRCC command, and the call descriptors that
\* invoke and the discovery send
DataInputs ==
    { IRCCData,
      Envelope(GetVersionsRequest(TheInstance)),
      Envelope(Request(TheInstance, "getPowerStatus", "1.0", <<>>)) }

InitRequest ==
    /\ mode = "sp"
    /\ services = <<TheInstance>>
    /\ methods = [s \in Services |-> <<>>]
    /\ serviceMethods = <<>>
    /\ call = [p \in Callers |-> IdleCall]
    /\ lastDesc = NoDesc
    /\ ncalls = 0
    /\ device = [s \in Services |-> <<>>]
    /\ transport = NoTransport
    /\ thisCredentials = PskCredentials
    /\ irccCodes = Lst(<<>>)

\* request(uri, credentials, data, headers, pair) up to `await got(uri, options)`
RequestSend(credentials, data, headers, pair) ==
    /\ transport.pc \in {"idle", "done"}
    /\ transport' = [NoTransport EXCEPT
                        !.pc = "sent", !.uri = EndpointUrl(TheInstance),
                        !.given = credentials,
                        !.credentials = CredentialsRead(credentials), !.data = data,
                        !.headers = headers, !.pair = pair,
                        !.options = Options(credentials, data, headers)]
    /\ UNCHANGED <<mode, services, methods, serviceMethods, call, lastDesc, ncalls, device,
                 thisCredentials, irccCodes>>

\* `params = []` in the parameter list of invoke: the default of an omitted argument
DefaultParams(params) == IF params = Undef THEN Lst(<<>>) ELSE params

\* The options that invoke of lib/service.js builds for request()
InvokeOptions(method, version, params) ==
    Envelope(Request(TheInstance, method, version, paramsList(DefaultParams(params))))

\* invoke(method, version, params, headers) of lib/service.js, which getVersions
\* and the discovery loop of describe call too, up to the await in request()
ServiceInvoke(credentials, method, version, params, headers) ==
    /\ transport.pc \in {"idle", "done"}
    /\ transport' = [NoTransport EXCEPT
                        !.pc = "sent", !.via = "invoke", !.uri = EndpointUrl(TheInstance),
                        !.arg = params, !.given = credentials,
                        !.credentials = CredentialsRead(credentials),
                        !.data = InvokeOptions(method, version, params),
                        !.headers = headers,
                        !.options = Options(credentials,
                                            InvokeOptions(method, version, params), headers)]
    /\ UNCHANGED <<mode, services, methods, serviceMethods, call, lastDesc, ncalls, device,
                 thisCredentials, irccCodes>>

\* request() resumed with the answer of the device: it returns or throws
RequestDone(resp) ==
    /\ transport.pc = "sent"
    /\ resp.kind \in {"null", "error"} => ~transport.data.xml
    /\ transport' = [transport EXCEPT
                        !.pc = "done", !.resp = resp,
                        !.result = WithPayload(RequestOutcome(transport.data, resp, transport.pair),
                                               transport.data, transport.uri)]
    /\ UNCHANGED <<mode, services, methods, serviceMethods, call, lastDesc, ncalls, device,
                 thisCredentials, irccCodes>>

\* The params argument of invoke in the model: omitted, an empty list, a list
\* of two, a bare object, a bare string
ParamInputs == {Undef, Lst(<<>>), Lst(<<"a", "b">>), Obj("status"), Str("1.0")}

\* The methods invoked through ServiceInvoke
InvokeInputs == {"getVersions", "getPowerStatus"}

NextRequest ==
    \/ \E c \in CredentialInputs, d \in DataInputs, h \in HeaderInputs, b \in BOOLEAN :
          RequestSend(c, d, h, b)
    \/ \E c \in CredentialInputs, m \in InvokeInputs, a \in ParamInputs :
          ServiceInvoke(c, m, "1.0", a, NoHeaders)
    \/ \E resp \in TransportResponses : RequestDone(resp)

SpecRequest == InitRequest /\ [][NextRequest]_vars

-----------------------------------------------------------------------------
(* The service layer with every kind of failure of a discovery request *)

\* The answers to a discovery request: those of Responses, a device error
\* pair and a failure of the network
FailureResponses ==
    Responses \cup {DevErr(401, "Unauthorized"), NetErr("ECONNREFUSED")}

\* The answers to the request of an invoke: those, and the error pairs that
\* request() turns into a result
InvokeResponses ==
    FailureResponses \cup {DevErr(40005, "Display Is Turned off"), DevErr(7, "Illegal State")}

NextFailures ==
    \/ \E p \in Callers, v \in DescribedVersions : Describe(p, v)
    \/ \E p \in Callers, m \in InvokedMethods : Invoke(p, m, "1.0")
    \/ \E p \in Callers : BraviaDescribe(p)
    \/ \E p \in Callers, m \in InvokedMethods : Exec(p, TheInstance, m, "1.0")
    \/ \E p \in Callers, s \in Services, resp \in FailureResponses :
          GetVersionsDone(p, s, resp)
    \/ \E p \in Callers, s \in Services, resp \in FailureResponses :
          GetMethodTypesDone(p, s, resp)
    \/ \E p \in Callers, resp \in InvokeResponses : InvokeDone(p, resp)

SpecFailures == Init /\ [][NextFailures]_vars

-----------------------------------------------------------------------------
(* The service layer in front of a display that may be turned off *)

\* The answer of a device whose display is off
PowerOffResp == DevErr(40005, "Display Is Turned off")

\* The answers of the device to any request: a result, or the power-off pair
StandbyResponses == {OkResp, PowerOffResp}

NextStandby ==
    \/ \E p \in Callers : Describe(p, UNDEFINED)
    \/ \E p \in Callers : Invoke(p, "getPowerStatus", "1.0")
    \/ \E p \in Callers : BraviaDescribe(p)
    \/ \E p \in Callers : Exec(p, TheInstance, "getPowerStatus", "1.0")
    \/ \E p \in Callers, s \in Services, resp \in StandbyResponses :
          GetVersionsDone(p, s, resp)
    \/ \E p \in Callers, s \in Services, resp \in StandbyResponses :
          GetMethodTypesDone(p, s, resp)
    \/ \E p \in Callers, resp \in StandbyResponses : InvokeDone(p, resp)

SpecStandby == Init /\ [][NextStandby]_vars

-----------------------------------------------------------------------------
(* The Bravia with PIN credentials: exec refreshes the token by pairing *)

\* An answer to actRegister that carries a set-cookie header with a token
SetCookieResp(token) == [OkResp EXCEPT !.cookie = token]
HasCookie(resp) == resp.cookie # ""

\* The answers of the device to the pairing request
PairResponses ==
    { SetCookieResp("tok2"), OkResp, HttpErr(401, "Unauthorized"), NetErr("ECONNREFUSED"),
      [DevErr(40005, "Display Is Turned off") EXCEPT !.cookie = "tok2"] }

\* Paired that does not look for the set-cookie header
PairedWithoutCookie(r, resp) == r.out = "return" /\ ~r.turnedOff

\* pair returns only when request() returned a response whose body is not
\* flagged turnedOff and that has a set-cookie header; else it throws
Paired(r, resp) == r.out = "return" /\ ~r.turnedOff /\ HasCookie(resp)

\* this.credentials.pin = {...this.credentials.pin, token, expires}
PairedCredentials(credentials, resp) ==
    [credentials EXCEPT !.token = resp.cookie, !.expires = "future"]

\* PairCatch that does not look at the refresh flag
PairCatchPromptsOnRefresh(code, refresh, manualAuth) ==
    IF manualAuth THEN "rethrow"
    ELSE IF code = Num(401) THEN "prompt"
    ELSE "wrap"

\* The catch block of pair, for an error with that code: it rethrows the
\* error, throws the 'Please use the CLI' error, prompts for the PIN, or
\* throws new Error(err)
PairCatch(code, refresh, manualAuth) ==
    IF manualAuth THEN "rethrow"
    ELSE IF code = Num(401) THEN (IF refresh THEN "cli" ELSE "prompt")
    ELSE "wrap"

\* The call chain c resumed when request() gave the outcome r to its pair:
\* pair returns (and an exec goes on to invoke), prompts, or throws
PairResume(c, r, resp) ==
    IF Paired(r, resp)
    THEN IF c.op = "exec"
         THEN Send([c EXCEPT !.refreshed = TRUE, !.pending = <<>>, !.pairResp = resp],
                   c.pending[1])
         ELSE Done([c EXCEPT !.pairResp = resp], Returned("pin", <<>>, FALSE))
    ELSE LET how == PairCatch(IF r.out = "throw" THEN r.code ELSE Undef,
                              c.flags.refresh, c.flags.manualAuth)
         IN  CASE how = "prompt" ->
                    [c EXCEPT !.pc = "prompt", !.prompts = @ + 1, !.pairResp = resp]
               [] how = "rethrow" /\ r.out = "throw" ->
                    Done([c EXCEPT !.pairResp = resp], Thrown(r.title, r.code))
               [] OTHER -> Done([c EXCEPT !.pairResp = resp], Thrown("Error", Undef))

\* A caller calls pair(pin, refresh, manualAuth) of the Bravia
Pair(p, pin, refresh, manualAuth) ==
    /\ mode = "lib"
    /\ CanStart(p)
    /\ ncalls' = ncalls + 1
    /\ call' = [call EXCEPT ![p] =
                   IF thisCredentials.pin
                   THEN [IdleCall EXCEPT
                           !.op = "pair", !.pc = "pair",
                           !.flags = [pin |-> pin, refresh |-> refresh,
                                      manualAuth |-> manualAuth],
                           !.auth = <<PairRequest(thisCredentials)>>]
                   ELSE Done([IdleCall EXCEPT !.op = "pair"], Thrown("TypeError", Undef))]
    /\ UNCHANGED <<mode, services, methods, serviceMethods, lastDesc, device, transport,
                   thisCredentials, irccCodes>>

\* The device answers the pairing request of the exec or pair of caller p
PairDone(p, resp) ==
    /\ call[p].pc = "pair"
    /\ call' = [call EXCEPT ![p] = PairResume(@, ClassifyResponse(resp), resp)]
    /\ thisCredentials' =
          IF Paired(ClassifyResponse(resp), resp)
          THEN PairedCredentials(thisCredentials, resp)
          ELSE thisCredentials
    /\ UNCHANGED <<mode, services, methods, serviceMethods, lastDesc, ncalls, device, transport,
                   irccCodes>>

\* The number of PIN prompts that the user answers in one call
MaxPrompts == 2

\* The user answers the prompt: return this.pair(pinPrompt.pin)
PromptDone(p) ==
    /\ call[p].pc = "prompt"
    /\ call[p].prompts <= MaxPrompts
    /\ call' = [call EXCEPT ![p] =
                   [@ EXCEPT !.pc = "pair",
                             !.flags = [pin |-> TRUE, refresh |-> FALSE,
                                        manualAuth |-> FALSE],
                             !.auth = Append(@, PairRequest(thisCredentials))]]
    /\ UNCHANGED <<mode, services, methods, serviceMethods, lastDesc, ncalls, device, transport,
                   thisCredentials, irccCodes>>

InitExec ==
    /\ mode \in {"sp", "lib"}
    /\ services = <<TheInstance>>
    /\ methods = [s \in Services |-> <<>>]
    /\ serviceMethods = <<>>
    /\ call = [p \in Callers |-> IdleCall]
    /\ lastDesc = NoDesc
    /\ ncalls = 0
    /\ device \in [Services -> DeviceAnswers]
    /\ \A s \in Services \ Created : device[s] = <<>>
    /\ transport = NoTransport
    /\ thisCredentials \in {PskCredentials} \cup PinCredentials
    /\ irccCodes = Lst(<<>>)
    /\ mode = "sp" => thisCredentials = PskCredentials

NextExec ==
    \/ \E p \in Callers : Describe(p, UNDEFINED)
    \/ \E p \in Callers, m \in InvokedMethods : Invoke(p, m, "1.0")
    \/ \E p \in Callers : BraviaDescribe(p)
    \/ \E p \in Callers, m \in InvokedMethods : Exec(p, TheInstance, m, "1.0")
    \/ \E p \in Callers, s \in Services, resp \in Responses : GetVersionsDone(p, s, resp)
    \/ \E p \in Callers, s \in Services, resp \in Responses : GetMethodTypesDone(p, s, resp)
    \/ \E p \in Callers, resp \in PairResponses : PairDone(p, resp)
    \/ \E p \in Callers, resp \in Responses : InvokeDone(p, resp)

SpecExec == InitExec /\ [][NextExec]_vars

-----------------------------------------------------------------------------
(* Pairing: pair called by the user, and by exec through refreshToken *)

InitPair ==
    /\ mode = "lib"
    /\ services = <<TheInstance>>
    /\ methods = [s \in Services |-> <<>>]
    /\ serviceMethods = <<>>
    /\ call = [p \in Callers |-> IdleCall]
    /\ lastDesc = NoDesc
    /\ ncalls = 0
    /\ device = [s \in Services |-> IF s \in Created THEN <<Lst(<<"1.0", "1.1">>)>> ELSE <<>>]
    /\ transport = NoTransport
    /\ thisCredentials \in {PskCredentials} \cup PinCredentials
    /\ irccCodes = Lst(<<>>)

NextPair ==
    \/ \E p \in Callers, pin, refresh, manualAuth \in BOOLEAN :
          Pair(p, pin, refresh, manualAuth)
    \/ \E p \in Callers : Exec(p, TheInstance, "getPowerStatus", "1.0")
    \/ \E p \in Callers, s \in Services : GetVersionsDone(p, s, OkResp)
    \/ \E p \in Callers, s \in Services : GetMethodTypesDone(p, s, OkResp)
    \/ \E p \in Callers, resp \in PairResponses : PairDone(p, resp)
    \/ \E p \in Callers : PromptDone(p)
    \/ \E p \in Callers : InvokeDone(p, OkResp)

SpecPair == InitPair /\ [][NextPair]_vars

-----------------------------------------------------------------------------
(* Bravia.execCommand (src/lib/bravia.js:345-398) and getIRCCCodes         *)
(* (268-282): the codes of a list are sent one by one to the ircc endpoint *)

\* The longest list of codes a caller passes
MaxCodes == 3

\* The table of the device's remote controller: result[1] of
\* getRemoteControllerInfo
DeviceCodes ==
    << [name |-> "Mute", value |-> "AAAAAQAAAAEAAAAUAw=="],
       [name |-> "Hdmi1", value |-> "AAAAAgAAABoAAABaAw=="] >>

\* The codes callers pass: a name, a value, and a code the device has not
CodeNames == {"Mute", "AAAAAgAAABoAAABaAw==", "Nope"}

\* A list of n names of codes, the one at index k replaced by a code the
\* device has not (none when k is 0)
CodeList(n, k) == [i \in 1..n |-> IF i = k THEN "Nope" ELSE "Mute"]

\* The codes argument: a list of at most MaxCodes codes, or one bare code
CodeInputs ==
    {[isArray |-> TRUE, items |-> CodeList(n, k)] : n \in 0..MaxCodes, k \in 0..MaxCodes}
    \cup {[isArray |-> FALSE, items |-> <<x>>] : x \in CodeNames}

\* this.irccCodes.find(c => c.name === code || c.value === code): the entries
\* that match, the first of which find returns
FindCode(table, code) == SelectSeq(table, LAMBDA e : e.name = code \/ e.value = code)

\* response.result[1] of the body exec returned: the table of codes, or the
\* message of the error pair when the body is flagged as power-off
RemoteControllerInfo(out) ==
    IF out.turnedOff THEN Str("Display Is Turned off") ELSE Lst(DeviceCodes)

\* The error execCommand throws for a code that is not in the table
UnknownIRCC(code) ==
    [Thrown("Unknown IRCC: \"" \o code \o "\"", Str("APIERROR")) EXCEPT
        !.message = <<"IRCC code \"", code, "\" not known!">>,
        !.url = <<BaseUrl, "/ircc">>]

\* execCommand has returned or thrown
CommandDone(c, out) ==
    [c EXCEPT !.op = "execCommand", !.pc = "done", !.out = out, !.cmd.stage = "done"]

\* CommandLoop that sends a code it does not find as it is
CommandLoopSendsUnknown(c, table) ==
    LET code == c.cmd.codes[c.cmd.k]
        found == FindCode(table.xs, code)
    IN  IF c.cmd.k > Len(c.cmd.codes)
        THEN CommandDone(c, Returned("undefined", <<>>, FALSE))
        ELSE IF table.t # "array"
        THEN CommandDone(c, Thrown("TypeError", Undef))
        ELSE [c EXCEPT !.op = "execCommand", !.pc = "ircc", !.cmd.stage = "loop",
                       !.cmd.sent =
                           Append(@, IF found = <<>> THEN code ELSE found[1].value)]

\* The loop `for (const code of codes)` at the code of index c.cmd.k, up to
\* its next await: the list is exhausted and execCommand returns; the table
\* is no array and find throws; the code is unknown and execCommand throws;
\* or the request for the value of the code is sent
CommandLoop(c, table) ==
    LET code == c.cmd.codes[c.cmd.k]
        found == FindCode(table.xs, code)
    IN  IF c.cmd.k > Len(c.cmd.codes)
        THEN CommandDone(c, Returned("undefined", <<>>, FALSE))
        ELSE IF table.t # "array"
        THEN CommandDone(c, Thrown("TypeError", Undef))
        ELSE IF found = <<>>
        THEN CommandDone(c, UnknownIRCC(code))
        ELSE [c EXCEPT !.op = "execCommand", !.pc = "ircc", !.cmd.stage = "loop",
                       !.cmd.sent = Append(@, found[1].value)]

\* this.exec('system', 'getRemoteControllerInfo') of getIRCCCodes, up to its
\* first await: the call chain is in Bravia.exec until that returns
ExecStart(c) ==
    LET c0 == [c EXCEPT
                 !.op = "exec", !.pc = "describe", !.protocol = TheInstance,
                 !.method = "getRemoteControllerInfo", !.version = "1.0",
                 !.preCat = methods[TheInstance],
                 !.quiet = Quiet, !.racing = Discovering,
                 !.cmd.stage = "codes"]
    IN  IF Len(serviceMethods) > 0
        THEN AfterBraviaDescribe(c0, serviceMethods)
        ELSE [c0 EXCEPT !.tasks =
                 [s \in Services |->
                     IF s \in Created
                     THEN DescribeStart(s, methods[s], UNDEFINED)
                     ELSE NoTask]]

\* await this.getIRCCCodes(): the cached this.irccCodes when it has a
\* length above 0, and then the loop; else the exec that fetches the table
CommandGetCodes(c) ==
    IF JSLength(irccCodes) > 0
    THEN CommandLoop(c, irccCodes)
    ELSE ExecStart(c)

\* await this.refreshToken() of execCommand: pair(false, true) when the
\* token is missing or has expired, and then getIRCCCodes
CommandRefresh(c) ==
    IF NeedsPair(thisCredentials)
    THEN [c EXCEPT !.pc = "pair", !.cmd.stage = "refresh",
                   !.flags = [pin |-> FALSE, refresh |-> TRUE, manualAuth |-> FALSE],
                   !.auth = Append(@, PairRequest(thisCredentials))]
    ELSE CommandGetCodes(c)

\* A caller calls execCommand(codes): `if (!Array.isArray(codes)) codes =
\* [codes]` leaves the list of the codes in both cases
ExecCommand(p, codes) ==
    LET c == CommandRefresh([IdleCall EXCEPT !.op = "execCommand",
                                             !.cmd.codes = codes.items])
    IN  /\ mode = "lib"
        /\ CanStart(p)
        /\ ncalls' = ncalls + 1
        /\ call' = [call EXCEPT ![p] = Resume(c)]
        /\ serviceMethods' = ServiceMethodsAfter(c, call'[p])
        /\ UNCHANGED <<mode, services, methods, lastDesc, device, transport,
                       thisCredentials, irccCodes>>

\* execCommand is resumed when the pair of its refreshToken, or the exec of
\* its getIRCCCodes, has completed: an error leaves execCommand as it is;
\* else getIRCCCodes is called, or this.irccCodes is assigned and the loop
\* starts
CommandResume(p) ==
    LET c == call[p]
        d == IF c.out.kind = "throw" THEN CommandDone(c, c.out)
             ELSE IF c.cmd.stage = "refresh" THEN CommandGetCodes(c)
             ELSE CommandLoop(c, RemoteControllerInfo(c.out))
    IN  /\ c.pc = "done"
        /\ c.cmd.stage \in {"refresh", "codes"}
        /\ irccCodes' = IF c.out.kind = "return" /\ c.cmd.stage = "codes"
                        THEN RemoteControllerInfo(c.out)
                        ELSE irccCodes
        /\ call' = [call EXCEPT ![p] = Resume(d)]
        /\ serviceMethods' = ServiceMethodsAfter(d, call'[p])
        /\ UNCHANGED <<mode, services, methods, lastDesc, ncalls, device, transport,
                       thisCredentials>>

\* The next iteration of the loop
CommandNext(c) == CommandLoop([c EXCEPT !.cmd.k = @ + 1], irccCodes)

\* The device answers the IRCC request of caller p: an error of request()
\* leaves execCommand; else `if (codes.length > 1) await setTimeoutAsync(delay)`
IRCCDone(p, resp) ==
    LET c == [call[p] EXCEPT !.cmd.answered = @ + 1]
        r == ClassifyResponse(resp)
    IN  /\ call[p].pc = "ircc"
        /\ resp.kind # "error"
        /\ call' = [call EXCEPT ![p] =
                       IF r.out = "throw" THEN CommandDone(c, Thrown(r.title, r.code))
                       ELSE IF Len(c.cmd.codes) > 1 THEN [c EXCEPT !.pc = "delay"]
                       ELSE CommandNext(c)]
        /\ UNCHANGED <<mode, services, methods, serviceMethods, lastDesc, ncalls, device,
                       transport, thisCredentials, irccCodes>>

\* The timer between two commands fires
DelayDone(p) ==
    /\ call[p].pc = "delay"
    /\ call' = [call EXCEPT ![p] = CommandNext(@)]
    /\ UNCHANGED <<mode, services, methods, serviceMethods, lastDesc, ncalls, device,
                   transport, thisCredentials, irccCodes>>

\* The answers of the device to an IRCC request
IRCCResponses == {OkResp, HttpErr(500, "Internal Server Error")}

InitCommand ==
    /\ mode = "lib"
    /\ services = <<TheInstance>>
    /\ methods = [s \in Services |-> <<>>]
    /\ serviceMethods = <<>>
    /\ call = [p \in Callers |-> IdleCall]
    /\ lastDesc = NoDesc
    /\ ncalls = 0
    /\ device = [s \in Services |-> IF s \in Created THEN <<Lst(<<"1.0", "1.1">>)>> ELSE <<>>]
    /\ transport = NoTransport
    /\ thisCredentials = PskCredentials
    /\ irccCodes = Lst(<<>>)

\* A Bravia made with a PSK: its refreshToken never pairs
NextCommand ==
    \/ \E p \in Callers, codes \in CodeInputs : ExecCommand(p, codes)
    \/ \E p \in Callers : CommandResume(p)
    \/ \E p \in Callers, s \in Services : GetVersionsDone(p, s, OkResp)
    \/ \E p \in Callers, s \in Services : GetMethodTypesDone(p, s, OkResp)
    \/ \E p \in Callers, resp \in StandbyResponses : InvokeDone(p, resp)
    \/ \E p \in Callers, resp \in IRCCResponses : IRCCDone(p, resp)
    \/ \E p \in Callers : DelayDone(p)

SpecCommand == InitCommand /\ [][NextCommand]_vars

-----------------------------------------------------------------------------
(* Properties *)

\* The entries of a catalog that carry the name m
EntriesFor(cat, m) == SelectSeq(cat, LAMBDA e : e.t = "entry" /\ e.method = m)

\* The catalog holds the name m, as an entry or inside a pushed array
Holds(cat, m) ==
    \E i \in 1..Len(cat) :
        \/ cat[i].method = m
        \/ \E j \in 1..Len(cat[i].items) : cat[i].items[j].method = m

\* The requests a call chain sent during discovery on the ServiceProtocol
DiscoveryRequests(c) == c.tasks[TheInstance].reqs

\* Titles of the errors that request() classifies
ClassifiedTitles == {"Invalid Response", "No Response"}

\* The (sub)versions of an answer to getVersions, in order
RECURSIVE SubVersions(_)
SubVersions(answer) ==
    IF answer = <<>> THEN <<>>
    ELSE (IF Head(answer).t = "array" THEN Head(answer).xs ELSE <<Head(answer).s>>)
         \o SubVersions(Tail(answer))

\* The getMethodTypes requests among reqs
MethodTypesRequests(reqs) == SelectSeq(reqs, LAMBDA q : q.method = "getMethodTypes")

\* A describe task that ran discovery to its end with every request answered
Discovered(t) == t.pc = "returned" /\ t.ret.shape = "object" /\ ~t.swallowed

\* C1: invoke of a method that is absent from an already populated catalog,
\* called while nothing else runs on the instance, fails with the error
\* titled 'Unknown Service Method' and sends no request.
C1_UnknownMethodFailsLocally ==
    \A p \in Callers :
        LET c == call[p]
        IN  (c.op = "invoke" /\ c.pc = "done" /\ c.quiet /\ Len(c.preCat) > 0
                /\ ~Holds(c.preCat, c.method))
            => /\ c.out.kind = "throw"
               /\ c.out.title = "Unknown Service Method"
               /\ Len(c.reqs) = 0
               /\ Len(DiscoveryRequests(c)) = 0

\* C2: every invoke of a method that is in the catalog when the call is made
\* (the second and later calls of a sequence) sends the call to the device
\* without a new discovery and completes with the device's result or a
\* classified error.
C2_EveryInvokeReachesDevice ==
    \A p \in Callers :
        LET c == call[p]
        IN  (c.op = "invoke" /\ c.pc = "done" /\ c.quiet
                /\ EntriesFor(c.preCat, c.method) # <<>>)
            => /\ Len(DiscoveryRequests(c)) = 0
               /\ Len(c.reqs) = 1
               /\ c.reqs[1].method = c.method
               /\ (c.out.kind = "return" \/ c.out.title \in ClassifiedTitles)

\* C3: when the catalog that invoke or exec consults holds entries for the
\* method but none at the requested version, the request sent carries the
\* version of the last such entry, and the call ends as the device's answer
\* to that request decides: no error is raised for the mismatch.
C3_MismatchSendsLatest ==
    \A p \in Callers :
        LET c == call[p]
            es == EntriesFor(c.view, c.method)
        IN  (c.op \in {"invoke", "exec"} /\ es # <<>>
                /\ \A i \in 1..Len(es) : es[i].version # c.version)
            => /\ c.pc \in {"request", "done"}
               /\ Len(c.reqs) = 1
               /\ c.reqs[1].method = c.method
               /\ c.reqs[1].version = es[Len(es)].version
               /\ c.pc = "done" => (c.out.kind = "return" \/ c.out.title \in ClassifiedTitles)

\* C3 happens: the method is known at 1.0 and 1.1 in this order, 2.0 was
\* requested, 1.1 was sent and the call returned.
C3_Witness ==
    \E p \in Callers :
        LET c == call[p]
            es == EntriesFor(c.view, c.method)
        IN  /\ c.op = "invoke" /\ c.pc = "done" /\ c.out.kind = "return"
            /\ c.version = "2.0"
            /\ Len(es) = 2 /\ es[1].version = "1.0" /\ es[2].version = "1.1"
            /\ c.reqs[1].version = "1.1"

\* C4: when the catalog that invoke or exec consults holds an entry for the
\* method at exactly the requested version, the request sent carries that
\* version, wherever the entry sits; a request carries another version than
\* the requested one only when no entry for the method has the requested one.
C4_ExactVersionKept ==
    \A p \in Callers :
        LET c == call[p]
            es == EntriesFor(c.view, c.method)
        IN  (c.op \in {"invoke", "exec"} /\ es # <<>>)
            => /\ Len(c.reqs) = 1
               /\ (\E i \in 1..Len(es) : es[i].version = c.version)
                     => c.reqs[1].version = c.version
               /\ c.reqs[1].version # c.version
                     => \A i \in 1..Len(es) : es[i].version # c.version

\* C4 happens: the requested version is the first of two known versions of
\* the method, so not the latest, and it was sent unchanged.
C4_Witness ==
    \E p \in Callers :
        LET c == call[p]
            es == EntriesFor(c.view, c.method)
        IN  /\ c.op \in {"invoke", "exec"} /\ c.pc = "done"
            /\ Len(es) = 2 /\ es[1].version = c.version /\ es[2].version # c.version
            /\ c.reqs[1].version = c.version

\* C5: a describe call made after a describe call has returned, while
\* nothing else runs on the instance, sends nothing to the device.
C5_SecondDescribeSendsNothing ==
    \A p \in Callers :
        LET c == call[p]
        IN  (c.op = "describe" /\ c.quiet /\ c.prev.out.kind = "return")
            => Len(DiscoveryRequests(c)) = 0

\* C6: describe() called after a describe() has returned, while nothing else
\* runs on the instance, returns a value identical to that one: same shape,
\* same entries in the same order.
C6_SecondDescribeIdentical ==
    \A p \in Callers :
        LET c == call[p]
        IN  (c.op = "describe" /\ c.pc = "done" /\ c.out.kind = "return"
                /\ c.quiet /\ c.version = UNDEFINED
                /\ c.prev.version = UNDEFINED /\ c.prev.out.kind = "return")
            => /\ c.out.shape = c.prev.out.shape
               /\ c.out.methods = c.prev.out.methods

\* C7: every entry that describe(version) returns is an entry of the catalog
\* whose version is the one given, on the call that discovers as on the calls
\* served from the cache.
C7_DescribeFiltersByVersion ==
    \A p \in Callers :
        LET c == call[p]
        IN  (c.op = "describe" /\ c.pc = "done" /\ c.out.kind = "return"
                /\ c.version # UNDEFINED)
            => \A i \in 1..Len(c.out.methods) :
                  c.out.methods[i].t = "entry" =>
                  /\ c.out.methods[i].version = c.version
                  /\ \E j \in 1..Len(methods[TheInstance]) :
                        methods[TheInstance][j] = c.out.methods[i]

\* C8: after a discovery in which every request was answered, every row the
\* device reported is an entry of its own in the catalog, with the row's
\* first field as name and its last field as version.
C8_EveryRowRecorded ==
    \A p \in Callers, s \in Services :
        LET t == call[p].tasks[s]
            qs == MethodTypesRequests(t.reqs)
        IN  Discovered(t)
            => \A k \in 1..Len(qs) :
                  LET rows == DeviceMethodTypes(qs[k].params)
                  IN  \A r \in 1..Len(rows) :
                         EntriesFor(t.ret.methods, rows[r][1]) # <<>>
                         /\ \E i \in 1..Len(t.ret.methods) :
                               /\ t.ret.methods[i].t = "entry"
                               /\ t.ret.methods[i].method = rows[r][1]
                               /\ t.ret.methods[i].version = rows[r][Len(rows[r])]

\* C9: a discovery in which every request was answered has sent exactly one
\* getMethodTypes request per (sub)version of the answer to getVersions, in
\* order, each with that version as its parameter.
C9_OneRequestPerVersion ==
    \A p \in Callers, s \in Services :
        LET t == call[p].tasks[s]
            qs == MethodTypesRequests(t.reqs)
            vs == SubVersions(device[s])
        IN  Discovered(t)
            => /\ Len(qs) = Len(vs)
               /\ \A k \in 1..Len(qs) : qs[k].params = <<Str(vs[k])>>

\* C10: a describe that met a 404 on any of its discovery requests returns,
\* and what it returns is an empty method list.
C10_NotFoundLeavesCatalogEmpty ==
    \A p \in Callers, s \in Services :
        LET t == call[p].tasks[s]
        IN  t.swallowed => (t.pc = "returned" /\ t.ret.methods = <<>>)

\* C11: a describe that met a failure of a discovery request with a
\* classified code other than 404 (an HTTP error, a device error pair, a
\* network error) has thrown, nothing was swallowed, and the call that ran
\* it has failed.
C11_DiscoveryFailurePropagates ==
    \A p \in Callers, s \in Services :
        LET c == call[p]
            t == c.tasks[s]
        IN  (t.failure # Undef /\ t.failure # Num(404))
            => /\ t.pc = "threw"
               /\ ~t.swallowed
               /\ c.pc = "done"
               /\ c.out.kind = "throw"

\* C11 happens: after getVersions and a getMethodTypes were answered, the
\* next getMethodTypes failed on the network, and describe threw.
C11_Witness ==
    \E p \in Callers :
        LET c == call[p]
            t == c.tasks[TheInstance]
        IN  /\ c.op = "describe" /\ c.pc = "done" /\ c.out.kind = "throw"
            /\ t.failure = Str("ECONNREFUSED")
            /\ Len(t.reqs) = 3
            /\ t.pc = "threw"

\* The error pair of the answer that the completed request() got
AnsweredPair(code, msg) ==
    /\ transport.pc = "done"
    /\ transport.resp.kind = "error"
    /\ transport.resp.code = code
    /\ transport.resp.msg = msg

PowerOffMessages == {"Display Is Turned off", "not power-on"}

\* C12: for an error pair whose message is 'Illegal State', whatever its
\* code, request() throws nothing and returns a body without error field
\* whose result is the one-element list holding the application source.
C12_IllegalStateIsMasked ==
    (transport.pc = "done" /\ transport.resp.kind = "error"
        /\ transport.resp.msg = "Illegal State")
    => /\ transport.result.out = "return"
       /\ transport.result.body.error = <<>>
       /\ transport.result.body.hasResult
       /\ transport.result.body.result = <<ApplicationSource>>

\* C12 happens: the device answered [7, 'Illegal State'] and request() returned.
C12_Witness ==
    /\ AnsweredPair(7, "Illegal State")
    /\ transport.result.out = "return"
    /\ transport.result.body.result = <<ApplicationSource>>

\* C13 as stated: for an error pair whose code is 40005 or whose message is
\* 'Display Is Turned off' or 'not power-on', request() throws nothing and
\* returns a body with turnedOff = true, the pair as result and no error field.
C13_PowerOffSignatureFlagged ==
    (transport.pc = "done" /\ transport.resp.kind = "error"
        /\ (transport.resp.code = 40005 \/ transport.resp.msg \in PowerOffMessages))
    => /\ transport.result.out = "return"
       /\ transport.result.body.turnedOff = "true"
       /\ transport.result.body.result
             = <<Num(transport.resp.code), Str(transport.resp.msg)>>
       /\ transport.result.body.error = <<>>

\* C13 amended: the same, for the pairs whose message is not 'Illegal State'.
C13_PowerOffUnlessIllegalState ==
    (transport.pc = "done" /\ transport.resp.kind = "error"
        /\ transport.resp.msg # "Illegal State"
        /\ (transport.resp.code = 40005 \/ transport.resp.msg \in PowerOffMessages))
    => /\ transport.result.out = "return"
       /\ transport.result.body.turnedOff = "true"
       /\ transport.result.body.hasResult
       /\ transport.result.body.result
             = <<Num(transport.resp.code), Str(transport.resp.msg)>>
       /\ transport.result.body.error = <<>>

\* C13 happens: a power-off message with another code than 40005 was answered
\* and came back as a flagged result.
C13_Witness ==
    /\ AnsweredPair(3, "not power-on")
    /\ transport.result.out = "return"
    /\ transport.result.body.turnedOff = "true"

\* C14: for an error pair [c, m] that is neither the illegal-state message
\* nor a power-off signature, request() throws a classified error with code c
\* and message m, and returns nothing.
C14_ProtocolErrorThrown ==
    (transport.pc = "done" /\ transport.resp.kind = "error"
        /\ transport.resp.msg # "Illegal State"
        /\ transport.resp.code # 40005
        /\ transport.resp.msg \notin PowerOffMessages)
    => /\ transport.result.out = "throw"
       /\ transport.result.title \in ClassifiedTitles
       /\ transport.result.code = Num(transport.resp.code)
       /\ transport.result.message = Str(transport.resp.msg)

\* C14 happens: the device answered [401, 'Unauthorized'] and request() threw.
C14_Witness ==
    /\ AnsweredPair(401, "Unauthorized")
    /\ transport.result.out = "throw"
    /\ transport.result.code = Num(401)

\* C15: a completed request() has either returned or thrown, and a body it
\* returned has no error field, whatever the device answered.
C15_ReturnedBodyHasNoError ==
    transport.pc = "done"
    => /\ transport.result.out \in {"return", "throw"}
       /\ transport.result.out = "return" => transport.result.body.error = <<>>

\* C15 happens: the device answered with an error pair and request() returned
\* a body, which has no error field.
C15_Witness ==
    /\ AnsweredPair(40005, "Display Is Turned off")
    /\ transport.result.out = "return"
    /\ transport.result.body.error = <<>>

\* C16: in the options of every request, the authentication header that the
\* credentials give has the value derived from the credentials, whatever
\* extra headers the caller passed.
C16_AuthHeaderKept ==
    transport.pc # "idle"
    => \A h \in {"X-Auth-PSK", "Cookie"} :
          AuthHeaders(NoHeaders, transport.credentials)[h] # UNDEFINED
          => transport.options.headers[h] = AuthHeaders(NoHeaders, transport.credentials)[h]

C18_ContentTypeFollowsPayload ==
    transport.pc # "idle"
    => /\ transport.data.xml
          => SentContentType(transport.options) = "text/xml; charset=UTF-8"
       /\ ~transport.data.xml
          => SentContentType(transport.options) = "application/json"

\* C19: no catalog holds two entries with the same name and the same version.
C19_CatalogPairsUnique ==
    \A s \in Services :
        \A i, j \in 1..Len(methods[s]) :
            (i # j /\ methods[s][i].t = "entry" /\ methods[s][j].t = "entry")
            => ~(/\ methods[s][i].method = methods[s][j].method
                 /\ methods[s][i].version = methods[s][j].version)

\* The catalog holds a row of version v, as an entry or inside a pushed array
HoldsVersion(cat, v) ==
    \E i \in 1..Len(cat) :
        \/ cat[i].version = v
        \/ \E j \in 1..Len(cat[i].items) : cat[i].items[j].version = v

\* The catalog that the describe of call c on endpoint s was served from
ServedCatalog(c, s) ==
    IF c.op \in {"describe", "invoke"} THEN c.preCat ELSE c.tasks[s].ret.methods

\* C20: a call made while a discovery is in flight on the instance is not
\* served from a catalog that lacks a version the device advertises: when its
\* describe answers from the catalog, the catalog holds every advertised
\* version that has methods.
C20_NoCallServedPartialCatalog ==
    \A p \in Callers, s \in Services :
        LET c == call[p]
            t == c.tasks[s]
            vs == SubVersions(device[s])
        IN  (s \in c.racing /\ t.pc = "returned" /\ t.reqs = <<>>)
            => \A k \in 1..Len(vs) :
                  DeviceRows(vs[k]) # <<>> => HoldsVersion(ServedCatalog(c, s), vs[k])

\* The catalog that the discovery loop builds when it runs alone over `plan`
RECURSIVE RunPlan(_, _)
RunPlan(cat, plan) ==
    IF plan = <<>> THEN cat
    ELSE RunPlan(RecordMethods(cat, Head(plan).how,
                               DeviceMethodTypes(paramsList(Head(plan).param))),
                 Tail(plan))

\* The catalog of a single discovery pass on a device that answers getVersions
\* with `answer`
SinglePass(answer) == RunPlan(<<>>, DiscoveryPlan(answer))

\* The elements of a catalog, as a set
Elements(cat) == {cat[i] : i \in 1..Len(cat)}

\* Both callers ran a discovery of endpoint s to its end, one of them started
\* while the other's was in flight, and no discovery of s is running
RacedAndCompleted(s) ==
    /\ \A p \in Callers : Discovered(call[p].tasks[s]) /\ call[p].tasks[s].reqs # <<>>
    /\ \E p \in Callers : s \in call[p].racing
    /\ s \notin Discovering

\* C21: once two racing discovery passes of an instance have both completed,
\* the catalog holds the same set of (name, version) pairs as the catalog of a
\* single pass, and resolves every requested version of every method name to
\* the same version.
C21_RaceEquivalentToSinglePass ==
    \A s \in Services :
        RacedAndCompleted(s)
        => /\ Elements(methods[s]) = Elements(SinglePass(device[s]))
           /\ \A m \in InvokedMethods \cup {"setPowerStatus"} :
                 LET raced == MethodExist(methods[s], m)
                     single == MethodExist(SinglePass(device[s]), m)
                 IN  /\ (raced = <<>>) = (single = <<>>)
                     /\ raced # <<>>
                        => \A v \in RequestedVersions :
                              ResolveVersion(raced, v) = ResolveVersion(single, v)

\* Two passes raced on a device with two versions and left every pair twice
C21_Witness ==
    \E s \in Services :
        /\ RacedAndCompleted(s)
        /\ device[s] = <<Lst(<<"1.0", "1.1">>)>>
        /\ Len(methods[s]) = 2 * Len(SinglePass(device[s]))
        /\ Len(methods[s]) > 0

\* C22: once a describe call has returned with the catalog populated, no step
\* of any call, later or still running, modifies the catalog of the instance.
C22_CatalogFrozenAfterDescribe ==
    [][\A s \in Services :
          (/\ Len(methods[s]) > 0
           /\ \E p \in Callers : call[p].tasks[s].pc = "returned")
          => methods'[s] = methods[s]]_vars

\* The number of requests that the call chain c has sent to the device
RequestsSent(c) ==
    Len(c.reqs)
    + Cardinality(UNION {{<<s, i>> : i \in 1..Len(c.tasks[s].reqs)} : s \in Services})

\* C23: an invoke made on an instance whose catalog is populated sends at most
\* one request to the device, however the device answers it.
C23_InvokeNeverRetries ==
    \A p \in Callers :
        (call[p].op \in {"invoke", "exec"} /\ Len(call[p].preCat) > 0)
        => RequestsSent(call[p]) <= 1

\* An invoke on a populated catalog failed on the network after one request
C23_Witness ==
    \E p \in Callers :
        /\ call[p].op \in {"invoke", "exec"} /\ Len(call[p].preCat) > 0
        /\ call[p].pc = "done"
        /\ call[p].out.title = "No Response"
        /\ RequestsSent(call[p]) = 1

\* The parts of a text
Parts(text) == {text[i] : i \in 1..Len(text)}

\* The texts among the fields of a thrown error
ErrorTexts(out) == {out.title} \cup Parts(out.message) \cup Parts(out.url)

\* C30: the unknown-method error of ServiceProtocol.invoke names, in its
\* fields, the method that was requested and the endpoint it was requested on.
C30_UnknownMethodErrorNamesMethod ==
    \A p \in Callers :
        LET c == call[p]
        IN  (/\ c.op = "invoke" /\ c.pc = "done"
             /\ c.out.kind = "throw" /\ c.out.code = Str("UNKNOWN"))
            => /\ c.method \in ErrorTexts(c.out)
               /\ c.protocol \in Parts(c.out.url)

\* C25: invoke sends params as a list: a list argument as it is, a bare object
\* as the one-element list holding it, an omitted argument as the empty list.
C25_ParamsSentAsList ==
    (transport.via = "invoke" /\ transport.pc # "idle")
    => /\ transport.arg.t = "array"
          => transport.data.params =
                [i \in 1..Len(transport.arg.xs) |-> Str(transport.arg.xs[i])]
       /\ transport.arg.t = "object" => transport.data.params = <<transport.arg>>
       /\ transport.arg = Undef => transport.data.params = <<>>

\* invoke was called with a list of two and with a bare object
C25_Witness ==
    /\ transport.via = "invoke" /\ transport.pc = "done"
    /\ transport.arg = Lst(<<"a", "b">>)
    /\ Len(transport.data.params) = 2

C29_EveryErrorCarriesContext ==
    (transport.pc = "done" /\ transport.result.out = "throw")
    => /\ transport.result.title # UNDEFINED
       /\ transport.result.code # Undef
       /\ transport.result.payload.id = transport.data.id
       /\ transport.result.payload.method = transport.data.method
       /\ transport.result.payload.version = transport.data.version
       /\ transport.result.payload.params = ArrayValue(transport.data.params)
       /\ transport.result.url = transport.uri

\* The call descriptors that the call chain c has sent: by its describe tasks,
\* by invoke, and by pairing
EnvelopesSent(c) ==
    Parts(c.reqs) \cup Parts(c.auth) \cup UNION {Parts(c.tasks[s].reqs) : s \in Services}

\* C24: every call descriptor sent to the device, by invoke, by getVersions
\* and getMethodTypes of the discovery and by pairing, carries the same
\* integer id, and that id is not 0.
C24_OneFixedNonZeroId ==
    \A p, q \in Callers :
        \A e \in EnvelopesSent(call[p]), f \in EnvelopesSent(call[q]) :
            e.id.t = "number" /\ e.id.n # 0 /\ e.id = f.id

\* An exec has sent discovery requests, a pairing request and its own request
C24_Witness ==
    \E p \in Callers :
        LET c == call[p]
        IN  /\ \E e \in Parts(c.auth) : e.method = "actRegister"
            /\ \E e \in Parts(c.reqs) : e.method = "getPowerStatus"
            /\ \E e \in EnvelopesSent(c) : e.method = "getVersions"
            /\ \E e \in EnvelopesSent(c) : e.method = "getMethodTypes"

\* C27: in an exec of a Bravia with PIN credentials, refreshToken has completed
\* before any request of the call goes to the device through the service
\* layer, discovery requests included.
C27_RefreshBeforeAnyRequest ==
    \A p \in Callers :
        (call[p].op = "exec" /\ thisCredentials.pin /\ RequestsSent(call[p]) > 0)
        => call[p].refreshed

\* C28: an exec naming a protocol that is no known service, or a method that
\* the catalog of the service does not hold, fails with the error 'Unknown
\* Service Protocol' or 'Unknown Service Method' and has sent no request.
C28_UnknownExecFailsLocally ==
    \A p \in Callers :
        LET c == call[p]
        IN  (/\ c.op = "exec" /\ c.pc = "done"
             /\ \/ c.protocol \notin Created
                \/ ~Holds(methods[c.protocol], c.method))
            => /\ c.out.title \in {"Unknown Service Protocol", "Unknown Service Method"}
               /\ RequestsSent(c) = 0 /\ c.auth = <<>>

\* C31: when the device answered a request of an invoke with a power-off
\* signature, be it a discovery request of a first invoke or the request of
\* the method, the invoke throws nothing and returns a result flagged as
\* power-off.
C31_PowerOffReturnedByInvoke ==
    \A p \in Callers :
        LET c == call[p]
        IN  (c.op = "invoke" /\ c.pc = "done" /\ c.tasks[TheInstance].off)
            => c.out.kind = "return" /\ c.out.turnedOff

\* C32: no exec is ever at the PIN prompt; when the token is missing or has
\* expired and the device answers the pairing of refreshToken with 401, the
\* exec fails with an error; a call is at the prompt only when it is a pair
\* whose last pairing was made without the refresh flag.
C32_ExecNeverPrompts ==
    \A p \in Callers :
        LET c == call[p]
        IN  /\ c.op = "exec" => (c.pc # "prompt" /\ c.prompts = 0)
            /\ (c.op = "exec" /\ c.pc # "pair" /\ c.auth # <<>>
                    /\ ClassifyResponse(c.pairResp).code = Num(401))
               => (c.pc = "done" /\ c.out.kind = "throw")
            /\ c.prompts > 0 => (c.op = "pair" /\ ~c.flags.refresh)

\* An exec whose refresh pairing was answered with 401 has failed
C32_Witness ==
    \E p \in Callers :
        /\ call[p].op = "exec" /\ call[p].pc = "done"
        /\ call[p].pairResp = HttpErr(401, "Unauthorized")
        /\ call[p].out.kind = "throw"
        /\ Len(call[p].auth) = 1

\* C38: a step changes the stored credentials only when it is the answer to a
\* pairing request and carries a set-cookie header, and then psk, pin, name
\* and uuid stay as they were: only token and expires change.
C38_PairChangesOnlyTokenAndExpires ==
    [][thisCredentials' # thisCredentials
       => /\ \E p \in Callers :
                /\ call[p].pc = "pair" /\ call'[p].pc # "pair"
                /\ HasCookie(call'[p].pairResp)
          /\ thisCredentials' =
                [thisCredentials EXCEPT !.token = thisCredentials'.token,
                                        !.expires = thisCredentials'.expires]]_vars

\* A pair was answered with a set-cookie header and the token was stored
C38_Witness ==
    /\ thisCredentials.token = "tok2"
    /\ thisCredentials.name = "bravia" /\ thisCredentials.uuid = "uuid-bravia"
    /\ \E p \in Callers : call[p].op = "pair" /\ call[p].pc = "done"
                            /\ call[p].out.kind = "return"

\* The sequence a is the beginning of the sequence b
IsPrefix(a, b) == Len(a) <= Len(b) /\ \A i \in 1..Len(a) : a[i] = b[i]

\* C33: the catalog is additive-only: in every step, what the catalog held
\* stays in place and unchanged, and what is new comes after it.
C33_CatalogAdditiveOnly ==
    [][\A s \in Services : IsPrefix(methods[s], methods'[s])]_vars

\* A catalog that grew by two concats and a push
C33_Witness ==
    \E s \in Services :
        /\ device[s] = <<Lst(<<"1.0", "1.1">>), Lst(<<"1.2">>)>>
        /\ Len(methods[s]) = Len(DeviceRows("1.0")) + Len(DeviceRows("1.1")) + 1
        /\ methods[s][1].version = "1.0"
        /\ methods[s][Len(methods[s])].t = "array"

\* C34: discovery is all-or-nothing: when a describe that started on an empty
\* catalog fails, and no other caller ran a discovery on that endpoint, the
\* catalog is left empty.
C34_FailedDiscoveryLeavesCatalogEmpty ==
    \A p \in Callers, s \in Services :
        LET c == call[p]
            t == c.tasks[s]
        IN  (/\ t.pc = "threw"
             /\ c.preCat = <<>>
             /\ \A q \in Callers \ {p} : call[q].tasks[s].reqs = <<>>)
            => methods[s] = <<>>

\* C35: a non-empty cached serviceMethods holds, for every configured service
\* protocol, exactly one entry {service: its name, methods: a list}; and so no
\* exec of a configured protocol fails with 'Unknown Service Protocol'.
C35_ServiceMethodsWellFormed ==
    /\ Len(serviceMethods) > 0
       => \A s \in Created :
              /\ Cardinality({i \in 1..Len(serviceMethods) :
                                  serviceMethods[i].service = s}) = 1
              /\ \A i \in 1..Len(serviceMethods) :
                     serviceMethods[i].service = s => serviceMethods[i].defined
    /\ \A p \in Callers :
           (call[p].op = "exec" /\ call[p].protocol \in Created /\ call[p].pc = "done")
           => call[p].out.title # "Unknown Service Protocol"

\* C36: the error pair is classified with the benign test first: a pair with
\* the message 'Illegal State' is masked even when its code is 40005; a
\* returned body has turnedOff = true exactly when its result is the pair the
\* device sent, and every other returned body has turnedOff = null.
C36_TurnedOffTrueOrNull ==
    (transport.pc = "done" /\ transport.result.out = "return")
    => LET body == transport.result.body
           resp == transport.resp
           pair == <<Num(resp.code), Str(resp.msg)>>
       IN  /\ (resp.kind = "error" /\ resp.msg = "Illegal State")
              => (body.result = <<ApplicationSource>> /\ body.turnedOff = "null")
           /\ body.turnedOff = "true" <=> (resp.kind = "error" /\ body.result = pair)
           /\ body.turnedOff # "true" => body.turnedOff = "null"

\* The values of the table for the codes xs, up to the first code that the
\* table has not
RECURSIVE KnownValues(_)
KnownValues(xs) ==
    IF xs = <<>> \/ FindCode(DeviceCodes, Head(xs)) = <<>> THEN <<>>
    ELSE <<FindCode(DeviceCodes, Head(xs))[1].value>> \o KnownValues(Tail(xs))

\* C37: execCommand sends the codes in list order, and sends a code only
\* when the request before it was answered; when a code of the list is
\* unknown it throws at that code: the codes before it were sent, and neither
\* it nor a code after it is sent.  When it returns, every code was sent.
C37_CodesSentInOrder ==
    \A p \in Callers :
        LET c == call[p]
            known == KnownValues(c.cmd.codes)
        IN  c.cmd.stage # "none"
            => /\ IsPrefix(c.cmd.sent, known)
               /\ c.cmd.answered
                     = IF c.pc = "ircc" THEN Len(c.cmd.sent) - 1 ELSE Len(c.cmd.sent)
               /\ (c.cmd.stage = "done" /\ c.out.kind = "return")
                  => (c.cmd.sent = known /\ Len(known) = Len(c.cmd.codes))
               /\ \A x \in CodeNames :
                     (c.cmd.stage = "done" /\ c.out.title = UnknownIRCC(x).title)
                     => /\ c.cmd.sent = known
                        /\ Len(known) < Len(c.cmd.codes)
                        /\ c.cmd.codes[Len(known) + 1] = x

\* execCommand(['Mute', 'Nope', 'Mute']) has sent Mute once and has
\* thrown at 'Nope'
C37_Witness ==
    \E p \in Callers :
        /\ call[p].cmd.stage = "done"
        /\ call[p].cmd.codes = <<"Mute", "Nope", "Mute">>
        /\ call[p].cmd.sent = <<"AAAAAQAAAAEAAAAUAw==">>
        /\ call[p].out.title = UnknownIRCC("Nope").title

\* C39: the discovery of a describe sends a bounded number of requests: one
\* getVersions and one getMethodTypes for each (sub)version the device
\* reported.
C39_DiscoveryRequestsBounded ==
    \A p \in Callers, s \in Services :
        Len(call[p].tasks[s].reqs) <= 1 + Len(SubVersions(device[s]))

====
